---------------------------- MODULE Spec2Model ----------------------------
(***************************************************************************)
(* A model of the retrieval-augmented agent of autoware_agent:             *)
(*   - agent.py: the graph of AgentRunner (call_model, execute_tools,      *)
(*     should_continue), invoke/stream and _parse_args;                    *)
(*   - vector_store.py: VectorStoreManager.build and its query surface.    *)
(* Three specifications share the module:                                  *)
(*   Spec       one run of the agent graph (FairSpec adds fairness),       *)
(*   ParseSpec  _parse_args applied to every tool-call encoding,           *)
(*   IndexSpec  ingests and queries of one VectorStoreManager.             *)
(***************************************************************************)
EXTENDS Integers, Sequences, FiniteSets, TLC

VARIABLES
    \* ---- AgentRunner and one run of its graph (agent.py)
    max_iterations,   \* AgentRunner.max_iterations (config.max_iterations)
    pc,               \* "idle", the node scheduled next ("model", "tools"), "END", "error"
    mode,             \* "none", "invoke" or "stream": the public operation running
    messages,         \* AgentState["messages"]
    iterations,       \* AgentState["iterations"]
    step,             \* number of graph nodes executed in this run
    rounds,           \* number of executions of the node "tools" in this run
    invoked,          \* the tool.invoke(...) calls made, in order: <<[name, args]>>
    model_input,      \* the message list handed to chat_model.invoke last
    emitted,          \* the updates yielded so far by stream(): node names
    answer,           \* what invoke() returned: [returned, content]
    \* ---- _parse_args as a function of its input (agent.py)
    tool_call_in,     \* the tool call under normalization
    parsed,           \* [done, value]: the value _parse_args returned
    \* ---- VectorStoreManager (vector_store.py)
    vector_store,     \* self.vector_store: "None" or "Chroma"
    collection,       \* the persisted collection "autoware_agent": a sequence of chunks
    builds,           \* number of calls of build() so far
    last_build,       \* outcome of the last build(): "none", "ok", "ValueError"
    last_documents,   \* the documents handed to the last build()
    query,            \* the last query and its outcome
    fetched,          \* what load_documents() did in main(): [done, requested, raised, outcomes]
    ingest            \* a build() in progress beside other callers: [active, before, pending]

vars == <<max_iterations, pc, mode, messages, iterations, step, rounds, invoked,
          model_input, emitted, answer, tool_call_in, parsed,
          vector_store, collection, builds, last_build, last_documents, query,
          fetched, ingest>>

agentVars == <<max_iterations, pc, mode, messages, iterations, step, rounds,
               invoked, model_input, emitted, answer>>
parseVars == <<tool_call_in, parsed>>
indexVars == <<vector_store, collection, builds, last_build, last_documents, query,
               fetched, ingest>>
\* what a query leaves alone
buildVars == <<vector_store, collection, builds, last_build, last_documents,
               fetched, ingest>>

(***************************************************************************)
(* Python values.  Every value is a record [kind, map, text]:              *)
(*   kind "missing"  the attribute or key is absent,                       *)
(*   kind "None"     None,                                                 *)
(*   kind "dict"     a dict; map is the function from its keys,            *)
(*   kind "str"      a str; text is its content, a sequence of JSON tokens,*)
(*   kind "list", "int"  another JSON value; text holds its tokens.        *)
(* A scalar inside a dict, and a JSON token, is a record [t, v].           *)
(***************************************************************************)
NONE == "<None>"
\* A tool-call identifier is [msg, pos]; NoId stands for None.
NoId == [msg |-> 0, pos |-> 0]

Tok(t, v) == [t |-> t, v |-> v]
LBrace == Tok("punct", "{")
RBrace == Tok("punct", "}")
LBracket == Tok("punct", "[")
RBracket == Tok("punct", "]")
Colon == Tok("punct", ":")
Comma == Tok("punct", ",")
ScalarKinds == {"str", "int", "null"}

EmptyMap == << >>
Missing == [kind |-> "missing", map |-> EmptyMap, text |-> << >>]
PyNone == [kind |-> "None", map |-> EmptyMap, text |-> << >>]
PyDict(m) == [kind |-> "dict", map |-> m, text |-> << >>]
PyStr(toks) == [kind |-> "str", map |-> EmptyMap, text |-> toks]
PyList(toks) == [kind |-> "list", map |-> EmptyMap, text |-> toks]
PyInt(toks) == [kind |-> "int", map |-> EmptyMap, text |-> toks]

\* isinstance(x, str), isinstance(x, dict)
IsStr(x) == x.kind = "str"
IsDict(x) == x.kind = "dict"

\* Python truthiness of a value: None, {}, "", [] and 0 are falsy.
Truthy(x) ==
    CASE x.kind \in {"missing", "None"} -> FALSE
      [] x.kind = "dict" -> DOMAIN x.map # {}
      [] x.kind = "str" -> x.text # << >>
      [] x.kind = "list" -> Len(x.text) > 2
      [] x.kind = "int" -> x.text # <<Tok("int", "0")>>
      [] OTHER -> TRUE

(***************************************************************************)
(* json.loads on a token sequence.  The grammar covered is: a scalar, a    *)
(* list of scalars, and an object whose members are scalars.  The result   *)
(* is [ok, value]; ok = FALSE stands for json.JSONDecodeError.             *)
(***************************************************************************)
DecodeError == [ok |-> FALSE, value |-> PyNone]
Decoded(v) == [ok |-> TRUE, value |-> v]

RECURSIVE ParseMembers(_, _, _)
\* toks[i] starts a member "key": scalar; acc holds the members read so far.
\* A repeated key keeps its last value, as in a Python dict.
ParseMembers(toks, i, acc) ==
    IF i + 3 > Len(toks) THEN DecodeError
    ELSE IF toks[i].t # "str" \/ toks[i + 1] # Colon
            \/ toks[i + 2].t \notin ScalarKinds THEN DecodeError
    ELSE LET acc2 == [k \in DOMAIN acc \cup {toks[i].v} |->
                        IF k = toks[i].v THEN toks[i + 2] ELSE acc[k]]
         IN  IF toks[i + 3] = RBrace
             THEN IF i + 3 = Len(toks) THEN Decoded(PyDict(acc2)) ELSE DecodeError
             ELSE IF toks[i + 3] = Comma THEN ParseMembers(toks, i + 4, acc2)
             ELSE DecodeError

RECURSIVE ParseItems(_, _)
\* toks[i] starts an item of a list of scalars.
ParseItems(toks, i) ==
    IF i + 1 > Len(toks) THEN FALSE
    ELSE IF toks[i].t \notin ScalarKinds THEN FALSE
    ELSE IF toks[i + 1] = RBracket THEN i + 1 = Len(toks)
    ELSE IF toks[i + 1] = Comma THEN ParseItems(toks, i + 2)
    ELSE FALSE

json_loads(toks) ==
    IF Len(toks) = 0 THEN DecodeError
    ELSE IF toks[1] = LBrace
    THEN IF Len(toks) >= 2 /\ toks[2] = RBrace
         THEN IF Len(toks) = 2 THEN Decoded(PyDict(EmptyMap)) ELSE DecodeError
         ELSE ParseMembers(toks, 2, EmptyMap)
    ELSE IF toks[1] = LBracket
    THEN IF Len(toks) >= 2 /\ toks[2] = RBracket
         THEN IF Len(toks) = 2 THEN Decoded(PyList(toks)) ELSE DecodeError
         ELSE IF ParseItems(toks, 2) THEN Decoded(PyList(toks)) ELSE DecodeError
    ELSE IF Len(toks) = 1 /\ toks[1].t = "int" THEN Decoded(PyInt(toks))
    ELSE IF Len(toks) = 1 /\ toks[1].t = "null" THEN Decoded(PyNone)
    ELSE IF Len(toks) = 1 /\ toks[1].t = "str"
    THEN Decoded(PyStr(IF toks[1].v = "" THEN << >> ELSE <<Tok("raw", toks[1].v)>>))
    ELSE DecodeError

\* json.dumps of a dict of scalars whose keys are written in the order `keys`.
RECURSIVE DumpMembers(_, _, _)
DumpMembers(m, keys, first) ==
    IF keys = << >> THEN << >>
    ELSE IF Head(keys) \notin DOMAIN m THEN DumpMembers(m, Tail(keys), first)
    ELSE (IF first THEN << >> ELSE <<Comma>>)
         \o <<Tok("str", Head(keys)), Colon, m[Head(keys)]>>
         \o DumpMembers(m, Tail(keys), FALSE)

json_dumps(m, keys) == <<LBrace>> \o DumpMembers(m, keys, TRUE) \o <<RBrace>>

(***************************************************************************)
(* Tool calls.  A tool call is [shape, name, id, args, arguments]:         *)
(*   shape "inline"    an object with the attributes name, id and args;    *)
(*   shape "function"  an object with the attributes id and function,      *)
(*                     where function has name and arguments;              *)
(*   shape "mapping"   a dict with the keys name, id, args, arguments.     *)
(* name is the tool name where the shape keeps it; an absent attribute or  *)
(* key has the value Missing (NONE for name, NoId for id).                 *)
(***************************************************************************)
ToolCall(shape, name, id, args, arguments) ==
    [shape |-> shape, name |-> name, id |-> id, args |-> args, arguments |-> arguments]

\* hasattr(tool_call, "args"), hasattr(tool_call, "function"), isinstance(tool_call, dict)
HasAttrArgs(tc) == tc.shape = "inline"
HasAttrFunction(tc) == tc.shape = "function"
IsMapping(tc) == tc.shape = "mapping"

\* One branch of _parse_args: a str is parsed as JSON (a decode error gives {}),
\* a dict is returned as it is; anything else falls through to the next branch.
Branch(payload) ==
    IF IsStr(payload)
    THEN LET r == json_loads(payload.text)
         IN  [returns |-> TRUE, value |-> IF r.ok THEN r.value ELSE PyDict(EmptyMap)]
    ELSE IF IsDict(payload) THEN [returns |-> TRUE, value |-> payload]
    ELSE [returns |-> FALSE, value |-> PyDict(EmptyMap)]

\* Variant: only the key "args" is read.
GetArgsOnly(tc) == IF tc.args.kind = "missing" THEN PyNone ELSE tc.args
\* tool_call.get("args") or tool_call.get("arguments")
GetArgsOrArguments(tc) ==
    LET a == IF tc.args.kind = "missing" THEN PyNone ELSE tc.args
        b == IF tc.arguments.kind = "missing" THEN PyNone ELSE tc.arguments
    IN  IF Truthy(a) THEN a ELSE b

_parse_args(tc) ==
    LET inline == IF HasAttrArgs(tc) THEN Branch(tc.args)
                  ELSE [returns |-> FALSE, value |-> PyDict(EmptyMap)]
        nested == IF HasAttrFunction(tc)
                  THEN Branch(IF tc.arguments.kind = "missing" THEN PyNone
                              ELSE tc.arguments)
                  ELSE [returns |-> FALSE, value |-> PyDict(EmptyMap)]
        raw    == IF IsMapping(tc) THEN Branch(GetArgsOrArguments(tc))
                  ELSE [returns |-> FALSE, value |-> PyDict(EmptyMap)]
    IN  IF inline.returns THEN inline.value
        ELSE IF nested.returns THEN nested.value
        ELSE IF raw.returns THEN raw.value
        ELSE PyDict(EmptyMap)

(***************************************************************************)
(* Bounds of the model.                                                    *)
(***************************************************************************)
\* max_iterations is a field of AppConfig; the runner is built with a value in
\* 0..MaxIterationsBound.
MaxIterationsBound == 3
\* An assistant message carries at most MaxCalls tool calls.
MaxCalls == 2
\* The graph executor stops a run that is still scheduling nodes after this
\* many node executions (its recursion limit; the run then raises).  It is
\* larger than 2 * MaxIterationsBound + 1, the longest run in which every
\* round of tool calls produces a result.
RecursionLimit == 8

(***************************************************************************)
(* Messages: [type, content, tool_calls, tool_call_id].                    *)
(***************************************************************************)
SYSTEM_PROMPT == "SYSTEM_PROMPT"
REMINDER == "tool call limit reached"

SystemMessage(c) ==
    [type |-> "system", content |-> c, tool_calls |-> << >>, tool_call_id |-> NoId]
HumanMessage(c) ==
    [type |-> "human", content |-> c, tool_calls |-> << >>, tool_call_id |-> NoId]
AIMessage(c, calls) ==
    [type |-> "ai", content |-> c, tool_calls |-> calls, tool_call_id |-> NoId]
ToolMessage(c, id) ==
    [type |-> "tool", content |-> c, tool_calls |-> << >>, tool_call_id |-> id]

Last(s) == s[Len(s)]

(***************************************************************************)
(* The registered tools (tools.py) and what the model may emit.            *)
(***************************************************************************)
\* self.tool_map = {tool.name: tool for tool in self.tools}
tool_map == {"search_documents", "read_full_document", "list_available_components"}

\* The parameters a tool declares without a default.
Required(name) ==
    CASE name = "search_documents" -> {"query"}
      [] name = "read_full_document" -> {"doc_id"}
      [] OTHER -> {}

\* str(observation) of a tool, as far as the agent is concerned.
Observation(name) ==
    CASE name = "search_documents" -> "search results"
      [] name = "read_full_document" -> "document chunks"
      [] OTHER -> "components"

\* tool.invoke(args) raises when args is no dict or lacks a required parameter.
ToolRaises(name, args) ==
    \/ ~IsDict(args)
    \/ ~(Required(name) \subseteq DOMAIN args.map)

SearchArgs == [k \in {"query", "k"} |->
                 IF k = "query" THEN Tok("str", "planning") ELSE Tok("int", "2")]
DocArgs == [k \in {"doc_id"} |-> Tok("str", "d1")]
KeyOrder == <<"query", "k", "doc_id">>

\* The identifier of the i-th tool call of the n-th message of a conversation.
CallId(n, i) == [msg |-> n, pos |-> i]

\* The tool calls an assistant message may carry at position i: the three
\* encodings of a registered call, an unregistered tool name, and a payload
\* that is no JSON for a tool with a required parameter.
SearchCall(n, i) ==
    ToolCall("inline", "search_documents", CallId(n, i), PyDict(SearchArgs), Missing)
ReadCall(n, i) ==
    ToolCall("function", "read_full_document", CallId(n, i), Missing,
             PyStr(json_dumps(DocArgs, KeyOrder)))
ListCall(n, i) ==
    ToolCall("mapping", "list_available_components", CallId(n, i), Missing, Missing)
UnknownCall(n, i) ==
    ToolCall("mapping", "web_search", CallId(n, i), PyDict(SearchArgs), Missing)
BadArgsCall(n, i) ==
    ToolCall("inline", "read_full_document", CallId(n, i),
             PyStr(<<Tok("raw", "doc d1")>>), Missing)

CallsAt(n, i) == {SearchCall(n, i), ReadCall(n, i), ListCall(n, i), UnknownCall(n, i), BadArgsCall(n, i)}

\* A list of len tool calls of message n: the call number i is unregistered
\* when unknown[i], else a search or a read by turns.
MixedCalls(n, len, unknown) ==
    [i \in 1..len |->
       IF unknown[i] THEN UnknownCall(n, i)
       ELSE IF i % 2 = 1 THEN SearchCall(n, i) ELSE ReadCall(n, i)]

\* The tool-call lists of the assistant messages of the model: no call, every
\* single call, and the lists of MaxCalls calls in which none, the first, the
\* last or every call names an unregistered tool.
AllCallSeqs(n) ==
    {<< >>}
    \cup {<<c>> : c \in CallsAt(n, 1)}
    \cup {MixedCalls(n, MaxCalls, [i \in 1..MaxCalls |-> FALSE]),
          MixedCalls(n, MaxCalls, [i \in 1..MaxCalls |-> i = 1]),
          MixedCalls(n, MaxCalls, [i \in 1..MaxCalls |-> i = MaxCalls]),
          MixedCalls(n, MaxCalls, [i \in 1..MaxCalls |-> TRUE])}

\* What chat_model.invoke may return: a text answer, tool calls without text,
\* or a search call next to a text.
Responses(n) ==
    {AIMessage("", calls) : calls \in AllCallSeqs(n)}
    \cup {AIMessage("answer", << >>), AIMessage("answer", <<SearchCall(n, 1)>>)}

Histories ==
    { << >>,
      <<HumanMessage("earlier question"),
        AIMessage("", <<ListCall(2, 1)>>),
        ToolMessage("components", CallId(2, 1)),
        AIMessage("earlier answer", << >>)>> }

(***************************************************************************)
(* The nodes of the graph (AgentRunner._build_graph).                      *)
(***************************************************************************)
\* tool_name as execute_tools looks it up
tool_name(tc) ==
    LET attr == IF tc.shape = "inline" THEN tc.name ELSE NONE
        fn   == IF tc.shape = "function" THEN tc.name ELSE NONE
    IN  IF attr # NONE THEN attr
        ELSE IF fn # NONE THEN fn
        ELSE IF IsMapping(tc) THEN tc.name
        ELSE NONE

\* tool_call_id as execute_tools looks it up
tool_call_id(tc) ==
    LET attr == IF tc.shape \in {"inline", "function"} THEN tc.id ELSE NoId
    IN  IF attr # NoId THEN attr
        ELSE IF IsMapping(tc) THEN tc.id
        ELSE NoId

\* args or {}
ArgsOrEmpty(args) == IF Truthy(args) THEN args ELSE PyDict(EmptyMap)

\* self.tool_map.get(tool_name) is not None
Registered(name) == name \in tool_map

\* Variant: an unregistered tool ends the loop over the tool calls.
NextAfterSkipBreak(calls, i) == Len(calls) + 1
\* `continue` on an unregistered tool: the loop goes on with the next call.
NextAfterSkip(calls, i) == i + 1

\* Variant: every tool result counts twice.
IterationIncrementTwice(tool_responses) == 2 * Len(tool_responses)
\* Variant: the counter counts rounds, one per execution of the node.
IterationIncrementPerRound(tool_responses) == 1
\* "iterations": len(tool_responses), which the reducer `add` adds to the counter
IterationIncrement(tool_responses) == Len(tool_responses)

\* Variant: the answer is taken from the first message of the result.
FinalContentFirst(msgs) == msgs[1].content
\* final_message = result["messages"][-1]; return final_message.content
FinalContent(msgs) == Last(msgs).content

\* Variant: the edge out of "tools" leads to END.
EdgeAfterToolsEnd == "END"
\* graph.add_edge("tools", "model")
EdgeAfterTools == "model"

\* Variant: a new tool-result message is put in front of the earlier ones.
RespondFirst(tool_responses, message) == <<message>> \o tool_responses
\* tool_responses.append(ToolMessage(...))
Respond(tool_responses, message) == Append(tool_responses, message)

RECURSIVE RunCalls(_, _, _, _)
\* The loop of execute_tools from call i on: the tool-result messages and the
\* invocations made; raised = TRUE when a tool.invoke raised (the loop stops).
RunCalls(calls, i, tool_responses, invocations) ==
    IF i > Len(calls)
    THEN [raised |-> FALSE, tool_responses |-> tool_responses,
          invocations |-> invocations]
    ELSE LET tc == calls[i]
             name == tool_name(tc)
         IN  IF ~Registered(name)
             THEN RunCalls(calls, NextAfterSkip(calls, i), tool_responses, invocations)
             ELSE LET args == ArgsOrEmpty(_parse_args(tc))
                      made == Append(invocations,
                                     [name |-> name, args |-> args,
                                      id |-> tool_call_id(tc)])
                  IN  IF ToolRaises(name, args)
                      THEN [raised |-> TRUE, tool_responses |-> tool_responses,
                            invocations |-> made]
                      ELSE RunCalls(calls, i + 1,
                                    Respond(tool_responses,
                                            ToolMessage(Observation(name),
                                                        tool_call_id(tc))),
                                    made)

\* Variant: the limit is compared with > instead of >=.
should_continue_after(msgs, iters, max_iter) ==
    IF Last(msgs).tool_calls # << >>
    THEN IF iters > max_iter THEN "END" ELSE "tools"
    ELSE "END"
\* should_continue on a state with these messages and this counter
should_continue(msgs, iters, max_iter) ==
    IF Last(msgs).tool_calls # << >>
    THEN IF iters >= max_iter THEN "END" ELSE "tools"
    ELSE "END"

\* A variant that adds the reminder only once the limit is exceeded.
ModelMessagesAfter(msgs, iters, max_iter) ==
    <<SystemMessage(SYSTEM_PROMPT)>>
    \o (IF iters > max_iter THEN <<SystemMessage(REMINDER)>> ELSE << >>)
    \o msgs

\* The message list call_model hands to the chat model.
ModelMessages(msgs, iters, max_iter) ==
    <<SystemMessage(SYSTEM_PROMPT)>>
    \o (IF iters >= max_iter THEN <<SystemMessage(REMINDER)>> ELSE << >>)
    \o msgs

NoAnswer == [returned |-> FALSE, content |-> ""]

AgentInit ==
    /\ pc = "idle"
    /\ mode = "none"
    /\ messages = << >>
    /\ iterations = 0
    /\ step = 0
    /\ rounds = 0
    /\ invoked = << >>
    /\ model_input = << >>
    /\ emitted = << >>
    /\ answer = NoAnswer

ParseInit ==
    /\ tool_call_in = ToolCall("mapping", NONE, NoId, Missing, Missing)
    /\ parsed = [done |-> FALSE, value |-> PyNone]

NoQuery == [op |-> "none", arg |-> NONE, raised |-> FALSE, result |-> << >>]

\* load_documents() has not run
NoFetch == [done |-> FALSE, requested |-> NONE, raised |-> FALSE, outcomes |-> << >>]

\* no build() is in progress
NoIngest == [active |-> FALSE, before |-> << >>, pending |-> << >>]

IndexInit ==
    /\ vector_store = "None"
    /\ collection = << >>
    /\ builds = 0
    /\ last_build = "none"
    /\ last_documents = << >>
    /\ query = NoQuery
    /\ fetched = NoFetch
    /\ ingest = NoIngest

Init ==
    /\ max_iterations \in 0..MaxIterationsBound
    /\ AgentInit
    /\ ParseInit
    /\ IndexInit

\* The start of invoke() or stream(): graph.invoke / graph.stream on
\* {"messages": history + [HumanMessage(user_message)], "iterations": 0}.
StartRun(m, history, user_message) ==
    /\ pc = "idle"
    /\ mode' = m
    /\ messages' = history \o <<HumanMessage(user_message)>>
    /\ iterations' = 0
    /\ pc' = "model"
    /\ UNCHANGED <<max_iterations, step, rounds, invoked, model_input, emitted,
                   answer>>
    /\ UNCHANGED <<parseVars, indexVars>>

invoke == \E history \in Histories : StartRun("invoke", history, "question")

stream == \E history \in Histories : StartRun("stream", history, "question")

\* The node "model" followed by its conditional edge; when the edge leads to
\* END the run is over and invoke() returns the content of the last message.
call_model ==
    /\ pc = "model"
    /\ step < RecursionLimit
    /\ \E response \in Responses(Len(messages) + 1) :
         LET msgs == Append(messages, response)
             next == should_continue(msgs, iterations, max_iterations)
         IN  /\ model_input' = ModelMessages(messages, iterations, max_iterations)
             /\ messages' = msgs
             /\ pc' = next
             /\ answer' = IF next = "END" /\ mode = "invoke"
                          THEN [returned |-> TRUE, content |-> FinalContent(msgs)]
                          ELSE answer
    /\ step' = step + 1
    /\ emitted' = IF mode = "stream" THEN Append(emitted, "model") ELSE emitted
    /\ UNCHANGED <<max_iterations, mode, iterations, rounds, invoked>>
    /\ UNCHANGED <<parseVars, indexVars>>

\* The node "tools" followed by its edge to "model".  A raising tool.invoke
\* propagates out of the graph: the run ends without a result.
execute_tools ==
    /\ pc = "tools"
    /\ step < RecursionLimit
    /\ LET r == RunCalls(Last(messages).tool_calls, 1, << >>, << >>)
       IN  /\ invoked' = invoked \o r.invocations
           /\ IF r.raised
              THEN /\ pc' = "error"
                   /\ UNCHANGED <<messages, iterations, emitted>>
              ELSE /\ pc' = EdgeAfterTools
                   /\ messages' = messages \o r.tool_responses
                   /\ iterations' = iterations + IterationIncrement(r.tool_responses)
                   /\ emitted' = IF mode = "stream" THEN Append(emitted, "tools")
                                 ELSE emitted
    /\ step' = step + 1
    /\ rounds' = rounds + 1
    /\ UNCHANGED <<max_iterations, mode, model_input, answer>>
    /\ UNCHANGED <<parseVars, indexVars>>

\* A run that still schedules a node after RecursionLimit node executions is
\* ended by the graph executor with an error.
recursion_error ==
    /\ pc \in {"model", "tools"}
    /\ step >= RecursionLimit
    /\ pc' = "error"
    /\ UNCHANGED <<max_iterations, mode, messages, iterations, step, rounds,
                   invoked, model_input, emitted, answer>>
    /\ UNCHANGED <<parseVars, indexVars>>

Next == invoke \/ stream \/ call_model \/ execute_tools \/ recursion_error

Spec == Init /\ [][Next]_vars

\* Every node the graph schedules is executed: the run is one sequential loop.
FairSpec == Spec /\ WF_vars(Next)


(***************************************************************************)
(* Properties of a run of the agent graph.                                 *)
(***************************************************************************)
\* The position of the user message of this run: the history precedes it.
RunStart == CHOOSE i \in 1..Len(messages) : messages[i] = HumanMessage("question")
\* The positions of the assistant messages produced in this run.
RunAI == {i \in 1..Len(messages) : i > RunStart /\ messages[i].type = "ai"}
HasCalls(m) == m.tool_calls # << >>
RegisteredCalls(m) == SelectSeq(m.tool_calls, LAMBDA tc : Registered(tool_name(tc)))
Running == pc \in {"model", "tools", "END", "error"}

\* C1: in every run the number of executions of the node "tools" is at most
\* max_iterations.
C1_RoundsWithinLimit == rounds <= max_iterations

\* C2: the node "tools" is never scheduled with iterations >= max_iterations;
\* an assistant message that carries tool calls while iterations >=
\* max_iterations ends the run, and none of its tool calls is invoked or
\* answered by a tool-result message.
C2_LimitCheckedBeforeExecution ==
    /\ pc = "tools" => iterations < max_iterations
    /\ (Running /\ Last(messages).type = "ai" /\ HasCalls(Last(messages))
        /\ iterations >= max_iterations)
         => /\ pc = "END"
            /\ \A i \in 1..Len(Last(messages).tool_calls) :
                 LET id == tool_call_id(Last(messages).tool_calls[i])
                 IN  /\ \A k \in 1..Len(invoked) : invoked[k].id # id
                     /\ \A j \in 1..Len(messages) : messages[j].tool_call_id # id

C2_Witness ==
    /\ pc = "END"
    /\ HasCalls(Last(messages))
    /\ Registered(tool_name(Last(messages).tool_calls[1]))
    /\ max_iterations >= 1
    /\ iterations >= max_iterations

\* C3: every run eventually reaches END, whatever the model answers.
C3_OnlyUnregistered ==
    \A i \in 1..Len(messages) :
      \A j \in 1..Len(messages[i].tool_calls) :
        i > RunStart => ~Registered(tool_name(messages[i].tool_calls[j]))

\* C3: every run eventually reaches END; stated for the model the claim names,
\* the one that only ever requests unregistered tools.
C3_RunTerminates == ([]C3_OnlyUnregistered) => <>(pc = "END")

\* C4: with max_iterations = 3 and a model whose every answer carries one call
\* of a registered tool, a finished run has executed the node "tools" exactly
\* 3 times, its last message still carries a tool call, and the final answer
\* is a non-empty text.
C4_OneCallPerStep ==
    \A i \in RunAI :
      /\ Len(messages[i].tool_calls) = 1
      /\ Registered(tool_name(messages[i].tool_calls[1]))

C4_ThreeRoundsThenAnswer ==
    (pc = "END" /\ max_iterations = 3 /\ C4_OneCallPerStep)
      => /\ rounds = 3
         /\ HasCalls(Last(messages))
         /\ Last(messages).content # ""

C6_CounterCountsResults ==
    [][ /\ (pc = "tools" /\ pc' = "model")
          => /\ iterations' - iterations = Len(messages') - Len(messages)
             /\ Len(messages') - Len(messages) = Len(RegisteredCalls(Last(messages)))
             /\ \A j \in (Len(messages) + 1)..Len(messages') :
                  messages'[j].type = "tool"
        /\ pc = "model" => iterations' = iterations
        /\ iterations' >= iterations ]_vars

C6_Witness ==
    /\ pc = "model"
    /\ rounds = 2
    /\ iterations = 2
    /\ \E i \in RunAI : Len(RegisteredCalls(messages[i])) = 0 /\ HasCalls(messages[i])

\* C7: a tool call that names an unregistered tool does not end the run: when
\* no invoked tool raises, the round appends one tool-result message for each
\* call of a registered tool, in order, none for the unregistered ones, and
\* the node "model" is scheduled next.
C7_HasUnregistered(m) ==
    \E i \in 1..Len(m.tool_calls) : ~Registered(tool_name(m.tool_calls[i]))

C7_NoneRaises(m) ==
    \A i \in 1..Len(m.tool_calls) :
      Registered(tool_name(m.tool_calls[i]))
        => ~ToolRaises(tool_name(m.tool_calls[i]),
                       ArgsOrEmpty(_parse_args(m.tool_calls[i])))

C7_UnregisteredSkipped ==
    [][ (pc = "tools" /\ step' = step + 1
         /\ C7_HasUnregistered(Last(messages)) /\ C7_NoneRaises(Last(messages)))
          => LET reg == RegisteredCalls(Last(messages))
             IN  /\ pc' = "model"
                 /\ Len(messages') = Len(messages) + Len(reg)
                 /\ \A j \in 1..Len(reg) :
                      /\ messages'[Len(messages) + j].type = "tool"
                      /\ messages'[Len(messages) + j].tool_call_id = tool_call_id(reg[j])
                 /\ Len(invoked') = Len(invoked) + Len(reg)
                 /\ \A j \in 1..Len(reg) :
                      invoked'[Len(invoked) + j].id = tool_call_id(reg[j]) ]_vars

C7_Witness ==
    /\ pc = "model"
    /\ Len(messages) >= 3
    /\ Last(messages).type = "tool"
    /\ LET m == messages[Len(messages) - 1]
       IN  /\ m.type = "ai"
           /\ Len(m.tool_calls) = MaxCalls
           /\ ~Registered(tool_name(m.tool_calls[1]))
           /\ Last(messages).tool_call_id = tool_call_id(m.tool_calls[MaxCalls])

\* C8: when a run has ended, its last message is the assistant message of the
\* last step of the node "model", never a tool-result message, and invoke()
\* has returned the content of that message.
C8_AnswerIsLastAssistantMessage ==
    /\ pc = "END"
         => /\ Last(messages).type = "ai"
            /\ model_input = ModelMessages(SubSeq(messages, 1, Len(messages) - 1),
                                           iterations, max_iterations)
            /\ mode = "invoke"
                 => answer = [returned |-> TRUE, content |-> Last(messages).content]
    /\ answer.returned => pc = "END"

C8_Witness ==
    /\ pc = "END"
    /\ mode = "invoke"
    /\ rounds >= 1
    /\ answer.content = "answer"
    /\ messages[1].content # "answer"


(***************************************************************************)
(* _parse_args on its own: ParseSpec applies it to one tool call drawn     *)
(* from ParseInputs.                                                       *)
(***************************************************************************)
\* The argument mappings: every choice of the parameters of search_documents,
\* and the parameter of read_full_document.
Payloads ==
    {EmptyMap, DocArgs}
    \cup UNION {[keys -> {Tok("str", "planning"), Tok("str", ""), Tok("int", "2"),
                          Tok("null", "null")}] :
                  keys \in {{"query"}, {"k"}, {"query", "k"}}}

\* The two forms of a payload: the mapping itself and its JSON string.
Forms(P) == {PyDict(P), PyStr(json_dumps(P, KeyOrder))}

\* The documented encodings of a tool call whose argument payload has the
\* form x: inline args attribute, nested function.arguments, raw mapping with
\* the key args or the key arguments.
EncodingsOf(x) ==
    { ToolCall("inline", "search_documents", CallId(1, 1), x, Missing),
      ToolCall("function", "search_documents", CallId(1, 1), Missing, x),
      ToolCall("mapping", "search_documents", CallId(1, 1), x, Missing),
      ToolCall("mapping", "search_documents", CallId(1, 1), Missing, x) }

Encodings(P) == UNION {EncodingsOf(x) : x \in Forms(P)}

\* Payloads that are no argument mapping: None, other types, strings that are
\* no JSON, JSON that is no object.
OtherPayloads ==
    { PyNone, PyInt(<<Tok("int", "7")>>), PyList(<<LBracket, RBracket>>),
      PyStr(<< >>),
      PyStr(<<Tok("raw", "query=planning")>>),
      PyStr(<<LBrace, Tok("str", "query"), Colon>>),
      PyStr(<<LBrace, Tok("str", "query"), Colon, Tok("str", "planning"), RBrace,
              RBrace>>),
      PyStr(<<LBracket, Tok("str", "planning"), Comma, Tok("int", "2"), RBracket>>),
      PyStr(<<Tok("int", "2")>>),
      PyStr(<<Tok("null", "null")>>),
      PyStr(<<Tok("str", "planning")>>) }

ParseInputs ==
    UNION {Encodings(P) : P \in Payloads}
    \cup UNION {EncodingsOf(x) : x \in OtherPayloads}
    \cup { ToolCall("mapping", "search_documents", CallId(1, 1), Missing, Missing),
           ToolCall("mapping", "search_documents", CallId(1, 1), PyDict(EmptyMap),
                    PyDict(SearchArgs)),
           ToolCall("mapping", "search_documents", CallId(1, 1), PyDict(DocArgs),
                    PyDict(SearchArgs)) }

InitParse ==
    /\ max_iterations = MaxIterationsBound
    /\ AgentInit
    /\ tool_call_in \in ParseInputs
    /\ parsed = [done |-> FALSE, value |-> PyNone]
    /\ IndexInit

\* args = self._parse_args(tool_call)
parse_args ==
    /\ ~parsed.done
    /\ parsed' = [done |-> TRUE, value |-> _parse_args(tool_call_in)]
    /\ UNCHANGED <<tool_call_in, agentVars, indexVars>>

NextParse == parse_args

ParseSpec == InitParse /\ [][NextParse]_vars

\* C9: the documented encodings of one argument payload (inline args,
\* function.arguments, raw mapping under args or arguments; the payload as a
\* mapping or as its JSON string) all normalize to the same mapping, which is
\* the payload.
C9_EncodingsAgree ==
    \A P \in Payloads :
      (parsed.done /\ tool_call_in \in Encodings(P))
        => /\ parsed.value = PyDict(P)
           /\ \A e \in Encodings(P) : _parse_args(e) = parsed.value

C9_Witness ==
    /\ parsed.done
    /\ tool_call_in = ToolCall("mapping", "search_documents", CallId(1, 1), Missing,
                               PyStr(json_dumps(SearchArgs, KeyOrder)))
    /\ parsed.value = PyDict(SearchArgs)
    /\ DOMAIN parsed.value.map = {"query", "k"}


(***************************************************************************)
(* VectorStoreManager (vector_store.py).                                   *)
(* A Document is [page_content, metadata]; page_content is [text, len], a  *)
(* text named `text` of len characters, and a chunk's page_content is      *)
(* [text, from, to], the characters from..to-1 of that text.  A metadata   *)
(* key that is absent has the value NONE.                                  *)
(***************************************************************************)
\* AppConfig.chunk_size, AppConfig.chunk_overlap
chunk_size == 800
chunk_overlap == 200

\* An index instance is built at most MaxBuilds times, each time from at most
\* MaxDocs documents.
MaxBuilds == 2
MaxDocs == 2

Document(text, len, source_url, component) ==
    [page_content |-> [text |-> text, len |-> len],
     metadata |-> [source_url |-> source_url, component |-> component,
                   doc_id |-> NONE]]

\* The documents the loader may hand over: the URL A configured under two
\* components, the URL B, and a URL whose page is empty.
Docs ==
    { Document("page A", 1401, "A", "planning"),
      Document("page A", 1401, "A", "perception"),
      Document("page B", 801, "B", "planning"),
      Document("page C", 0, "C", "perception") }

RECURSIVE DocSeqs(_)
\* the lists of exactly n different documents
DocSeqs(n) ==
    IF n = 0 THEN {<< >>}
    ELSE {Append(s, d) : s \in DocSeqs(n - 1), d \in Docs}

\* The place of a document in the order in which the configuration lists
\* the pages: load_documents hands them over in that order.
DocOrder(doc) ==
    CASE doc.metadata.source_url = "A" /\ doc.metadata.component = "planning" -> 1
      [] doc.metadata.source_url = "B" -> 2
      [] doc.metadata.source_url = "A" /\ doc.metadata.component = "perception" -> 3
      [] doc.metadata.source_url = "C" -> 4

DocumentSets ==
    {s \in UNION {DocSeqs(n) : n \in 0..MaxDocs} :
       \A i, j \in 1..Len(s) : i < j => DocOrder(s[i]) < DocOrder(s[j])}

\* hashlib.sha1(source.encode("utf-8")).hexdigest()
sha1(source) ==
    CASE source = "A" -> "6dcd4ce23d88e2ee9568ba546c007c63d9131c1b"
      [] source = "B" -> "ae4f281df5a5d0ff3cad6371f76d5c29b6d953ec"
      [] source = "C" -> "32096c2e0eff33d844ee6d675407ace18289357d"
      [] source = "unknown" -> "50d8b4a941c26b89482c94ab324b5a274f9ced66"

\* A variant that derives doc_id from the source and the component together.
_enrich_metadata_component(metadata) ==
    LET source == IF metadata.source_url = NONE THEN "unknown"
                  ELSE metadata.source_url
        component == IF metadata.component = NONE THEN "unknown"
                     ELSE metadata.component
        doc_id == IF metadata.doc_id \notin {NONE, ""} THEN metadata.doc_id
                  ELSE <<sha1(source), component>>
    IN  [source_url |-> source, component |-> component, doc_id |-> doc_id]

_enrich_metadata(metadata) ==
    LET source == IF metadata.source_url = NONE THEN "unknown"
                  ELSE metadata.source_url
        component == IF metadata.component = NONE THEN "unknown"
                     ELSE metadata.component
        doc_id == IF metadata.doc_id \notin {NONE, ""} THEN metadata.doc_id
                  ELSE sha1(source)
    IN  [source_url |-> source, component |-> component, doc_id |-> doc_id]

\* The number of chunks the splitter cuts a text of len characters into: none
\* for an empty text, else windows of chunk_size characters that start every
\* chunk_size - chunk_overlap characters.
NumChunks(len) ==
    IF len = 0 THEN 0
    ELSE IF len <= chunk_size THEN 1
    ELSE 1 + ((len - chunk_size) + (chunk_size - chunk_overlap) - 1)
               \div (chunk_size - chunk_overlap)

Min(a, b) == IF a <= b THEN a ELSE b

\* self.splitter.split_documents([doc]): the chunks keep the document's metadata.
split_documents(doc) ==
    [i \in 1..NumChunks(doc.page_content.len) |->
       LET from == (i - 1) * (chunk_size - chunk_overlap)
       IN  [page_content |-> [text |-> doc.page_content.text, from |-> from,
                              to |-> Min(doc.page_content.len, from + chunk_size)],
            metadata |-> doc.metadata]]

\* The position enumerate() gives the i-th chunk (i = 1, 2, ...) of a document.
ChunkIndex(i) == i - 1

\* The body of the outer loop of build(): the chunks of one document.
ChunksOf(doc) ==
    LET metadata == _enrich_metadata(doc.metadata)
        parts == split_documents(doc)
    IN  [i \in 1..Len(parts) |->
           [page_content |-> parts[i].page_content,
            metadata |-> [source_url |-> metadata.source_url,
                          component |-> metadata.component,
                          doc_id |-> metadata.doc_id,
                          chunk_index |-> ChunkIndex(i)]]]

RECURSIVE AllChunks(_)
AllChunks(documents) ==
    IF documents = << >> THEN << >>
    ELSE ChunksOf(Head(documents)) \o AllChunks(Tail(documents))

\* Chroma.from_documents(..., collection_name="autoware_agent", persist_directory=...):
\* the collection of that name is opened, or created when there is none, and
\* the chunks are added to it under fresh ids.
from_documents(existing, chunks) == existing \o chunks

\* A variant that never finds the chunk list empty.
NoChunksNever(chunks) == FALSE

\* `if not chunks` in build()
NoChunks(chunks) == chunks = << >>

\* A variant in which a build without chunks drops the handle and empties
\* the collection.
BuildWithReset(documents) ==
    LET chunks == AllChunks(documents)
    IN  /\ last_documents' = documents
        /\ IF NoChunks(chunks)
           THEN /\ last_build' = "ValueError"
                /\ vector_store' = "None"
                /\ collection' = << >>
           ELSE /\ last_build' = "ok"
                /\ collection' = from_documents(collection, chunks)
                /\ vector_store' = "Chroma"
        /\ builds' = builds + 1
        /\ query' = NoQuery

\* The body of build(documents), run without another caller beside it.
BuildWith(documents) ==
    LET chunks == AllChunks(documents)
    IN  /\ last_documents' = documents
        /\ IF NoChunks(chunks)
           THEN /\ last_build' = "ValueError"
                /\ UNCHANGED <<vector_store, collection>>
           ELSE /\ last_build' = "ok"
                /\ collection' = from_documents(collection, chunks)
                /\ vector_store' = "Chroma"
        /\ builds' = builds + 1
        /\ query' = NoQuery

\* build(documents)
build ==
    /\ builds < MaxBuilds
    /\ ~ingest.active
    /\ \E documents \in DocumentSets : BuildWith(documents)
    /\ UNCHANGED <<fetched, ingest>>
    /\ UNCHANGED <<agentVars, parseVars>>

RECURSIVE InsertSorted(_, _)
\* x placed after the items of the sorted s whose chunk_index is not larger
InsertSorted(s, x) ==
    IF s = << >> THEN <<x>>
    ELSE IF Head(s).metadata.chunk_index <= x.metadata.chunk_index
         THEN <<Head(s)>> \o InsertSorted(Tail(s), x)
         ELSE <<x>> \o s

\* A variant that leaves the results in the order of the collection.
SortByChunkIndexNot(s) == s

RECURSIVE SortByChunkIndex(_)
\* results.sort(key=chunk_index): a stable sort
SortByChunkIndex(s) ==
    IF s = << >> THEN << >>
    ELSE InsertSorted(SortByChunkIndex(SubSeq(s, 1, Len(s) - 1)), s[Len(s)])

\* self.vector_store.get(where={"doc_id": doc_id}), sorted by chunk_index
FetchResult(coll, doc_id) ==
    SortByChunkIndex(SelectSeq(coll, LAMBDA c : c.metadata.doc_id = doc_id))

DocIdsAsked == {sha1("A"), sha1("B"), sha1("C")}

\* A variant that never finds the handle unset.
NotBuiltNever(handle) == FALSE

\* `if self.vector_store is None`
NotBuilt(handle) == handle = "None"

\* What a call of a method or of a tool gives: an exception, or a value.
Raised == [raised |-> TRUE, result |-> << >>]
Returned(value) == [raised |-> FALSE, result |-> value]
Outcome(op, arg, call) ==
    [op |-> op, arg |-> arg, raised |-> call.raised, result |-> call.result]

\* fetch_document(doc_id) on an instance with this handle and collection
FetchDocument(handle, coll, doc_id) ==
    IF NotBuilt(handle) THEN Raised ELSE Returned(FetchResult(coll, doc_id))

\* fetch_document(doc_id)
fetch_document ==
    /\ \E doc_id \in DocIdsAsked :
         query' = Outcome("fetch_document", doc_id,
                          FetchDocument(vector_store, collection, doc_id))
    /\ UNCHANGED buildVars
    /\ UNCHANGED <<agentVars, parseVars>>

\* The largest k a search is asked for.
MaxK == 3

RECURSIVE Reverse(_)
Reverse(s) == IF s = << >> THEN << >> ELSE Append(Reverse(Tail(s)), Head(s))

\* The order in which the store ranks the chunks for a query depends on the
\* embeddings: the chunks come in the order they were added, or in the
\* opposite order.
Rankings == {"forward", "backward"}
Ranked(coll, ranking) == IF ranking = "forward" THEN coll ELSE Reverse(coll)

\* self.vector_store.similarity_search(query=query, k=k): the k best ranked
\* chunks, all of them when there are fewer.
TopK(coll, k, ranking) == SubSeq(Ranked(coll, ranking), 1, Min(k, Len(coll)))

\* similarity_search(query, k) on an instance with this handle and collection
SimilaritySearch(handle, coll, k, ranking) ==
    IF NotBuilt(handle) THEN Raised ELSE Returned(TopK(coll, k, ranking))

\* similarity_search(query, k), for the k >= 1 it is called with
similarity_search ==
    /\ \E k \in 1..MaxK, ranking \in Rankings :
         query' = Outcome("similarity_search", k,
                          SimilaritySearch(vector_store, collection, k, ranking))
    /\ UNCHANGED buildVars
    /\ UNCHANGED <<agentVars, parseVars>>

\* The component names in ascending order, as sorted() orders them.
ComponentOrder == <<"perception", "planning", "unknown">>

\* list_components(): sorted(filter(None, components))
ListResult(coll) ==
    SelectSeq(ComponentOrder,
              LAMBDA name : \E i \in 1..Len(coll) : coll[i].metadata.component = name)

\* list_components() on an instance with this handle and collection
ListComponents(handle, coll) ==
    IF NotBuilt(handle) THEN Returned(<< >>) ELSE Returned(ListResult(coll))

list_components ==
    /\ query' = Outcome("list_components", NONE,
                        ListComponents(vector_store, collection))
    /\ UNCHANGED buildVars
    /\ UNCHANGED <<agentVars, parseVars>>

(***************************************************************************)
(* ToolManager (tools.py): the three tools over the VectorStoreManager.    *)
(* A tool returns the JSON text of its payload; the payload is kept here.  *)
(***************************************************************************)
\* AppConfig.components, a dict in insertion order: two URLs are configured
\* under planning and one under perception.
components ==
    << [name |-> "planning", urls |-> <<"A", "B">>],
       [name |-> "perception", urls |-> <<"C">>] >>

\* AppConfig.top_k
top_k == 4

\* the length of an excerpt: page_content[:400]
excerpt_chars == 400

\* The argument k of search_documents: [given, value]; k is None when the
\* call does not give it.
NoK == [given |-> FALSE, value |-> 0]
GivenK(n) == [given |-> TRUE, value |-> n]

\* `k or self.config.top_k`: None and 0 are falsy
KOrTopK(k) == IF ~k.given \/ k.value = 0 THEN top_k ELSE k.value

\* _serialize_result(doc, score)
_serialize_result(doc, score) ==
    [rank |-> score,
     doc_id |-> doc.metadata.doc_id,
     component |-> doc.metadata.component,
     source_url |-> doc.metadata.source_url,
     excerpt |-> [text |-> doc.page_content.text,
                  from |-> doc.page_content.from,
                  to |-> Min(doc.page_content.to,
                             doc.page_content.from + excerpt_chars)]]

\* search_documents(query, k): an exception of similarity_search leaves the tool
SearchDocumentsTool(handle, coll, k, ranking) ==
    LET call == SimilaritySearch(handle, coll, KOrTopK(k), ranking)
    IN  IF call.raised THEN Raised
        ELSE Returned([index \in 1..Len(call.result) |->
                         _serialize_result(call.result[index], index)])

\* The values of k the model may pass: none, or 0..MaxK.
KsAsked == {NoK} \cup {GivenK(n) : n \in 0..MaxK}

search_documents_tool ==
    /\ \E k \in KsAsked, ranking \in Rankings :
         query' = Outcome("search_documents", k,
                          SearchDocumentsTool(vector_store, collection, k, ranking))
    /\ UNCHANGED buildVars
    /\ UNCHANGED <<agentVars, parseVars>>

\* read_full_document(doc_id)
ReadFullDocumentTool(handle, coll, doc_id) ==
    LET call == FetchDocument(handle, coll, doc_id)
    IN  IF call.raised THEN Raised
        ELSE Returned([c \in 1..Len(call.result) |->
                         [index |-> call.result[c].metadata.chunk_index,
                          source_url |-> call.result[c].metadata.source_url,
                          component |-> call.result[c].metadata.component,
                          content |-> call.result[c].page_content]])

read_full_document_tool ==
    /\ \E doc_id \in DocIdsAsked :
         query' = Outcome("read_full_document", doc_id,
                          ReadFullDocumentTool(vector_store, collection, doc_id))
    /\ UNCHANGED buildVars
    /\ UNCHANGED <<agentVars, parseVars>>

\* sorted(self.config.components.keys())
SortedConfigNames ==
    SelectSeq(ComponentOrder,
              LAMBDA name : \E c \in 1..Len(components) : components[c].name = name)

\* A variant that answers from the configuration whatever the index holds.
ListComponentsToolStatic(handle, coll) == Returned(SortedConfigNames)

\* list_available_components()
ListComponentsTool(handle, coll) ==
    LET names == ListComponents(handle, coll).result
    IN  Returned(IF names = << >> THEN SortedConfigNames ELSE names)

list_components_tool ==
    /\ query' = Outcome("list_available_components", NONE,
                        ListComponentsTool(vector_store, collection))
    /\ UNCHANGED buildVars
    /\ UNCHANGED <<agentVars, parseVars>>

(***************************************************************************)
(* DocumentLoader (document_loader.py) and the start of main() (main.py).  *)
(***************************************************************************)
\* response.text of a fetch that succeeds; the page behind C is empty.
Page(url) ==
    CASE url = "A" -> [text |-> "page A", len |-> 1401]
      [] url = "B" -> [text |-> "page B", len |-> 801]
      [] url = "C" -> [text |-> "page C", len |-> 0]

\* args.components: None, or the names given on the command line
Requests ==
    {NONE, <<"planning">>, <<"perception">>, <<"perception", "planning">>,
     <<"planning", "control">>}

Configured(name) == \E c \in 1..Len(components) : components[c].name = name
ConfigEntry(name) ==
    components[CHOOSE c \in 1..Len(components) : components[c].name = name]

\* _select_components(requested)
_select_components(requested) ==
    IF requested = NONE THEN [raised |-> FALSE, targets |-> components]
    ELSE IF \E r \in 1..Len(requested) : ~Configured(requested[r])
    THEN [raised |-> TRUE, targets |-> << >>]
    ELSE [raised |-> FALSE,
          targets |-> [r \in 1..Len(requested) |-> ConfigEntry(requested[r])]]

RECURSIVE Fetches(_)
\* The calls _fetch(url, name) of the two loops of load_documents, in order.
Fetches(targets) ==
    IF targets = << >> THEN << >>
    ELSE [u \in 1..Len(Head(targets).urls) |->
            [url |-> Head(targets).urls[u], component |-> Head(targets).name]]
         \o Fetches(Tail(targets))

\* _fetch(url, component): None when requests raises, else the page as a
\* Document; the value returned is [none, document].
_fetch(url, component, ok) ==
    IF ok
    THEN [none |-> FALSE,
          document |-> Document(Page(url).text, Page(url).len, url, component)]
    ELSE [none |-> TRUE]

RECURSIVE load_documents_abort(_)
\* A variant in which the first failed fetch ends the loading.
load_documents_abort(outcomes) ==
    IF outcomes = << >> THEN << >>
    ELSE LET fetch == _fetch(Head(outcomes).url, Head(outcomes).component,
                             Head(outcomes).ok)
         IN  IF ~fetch.none
             THEN <<fetch.document>> \o load_documents_abort(Tail(outcomes))
             ELSE << >>

RECURSIVE load_documents(_)
\* load_documents: the Documents of the fetches that succeeded, in order.
load_documents(outcomes) ==
    IF outcomes = << >> THEN << >>
    ELSE LET fetch == _fetch(Head(outcomes).url, Head(outcomes).component,
                             Head(outcomes).ok)
         IN  IF ~fetch.none
             THEN <<fetch.document>> \o load_documents(Tail(outcomes))
             ELSE load_documents(Tail(outcomes))

\* main(), up to vector_store.build(documents): a ValueError of
\* load_documents ends the program before any build; one of build is not caught.
main ==
    /\ builds = 0
    /\ ~fetched.done
    /\ ~ingest.active
    /\ \E requested \in Requests :
         LET selected == _select_components(requested)
             calls == Fetches(selected.targets)
         IN  IF selected.raised
             THEN /\ fetched' = [done |-> TRUE, requested |-> requested,
                                 raised |-> TRUE, outcomes |-> << >>]
                  /\ UNCHANGED <<vector_store, collection, builds, last_build,
                                 last_documents, query>>
             ELSE \E ok \in [1..Len(calls) -> BOOLEAN] :
                    LET outcomes == [c \in 1..Len(calls) |->
                                       [url |-> calls[c].url,
                                        component |-> calls[c].component,
                                        ok |-> ok[c]]]
                    IN  /\ fetched' = [done |-> TRUE, requested |-> requested,
                                       raised |-> FALSE, outcomes |-> outcomes]
                        /\ BuildWith(load_documents(outcomes))
    /\ UNCHANGED ingest
    /\ UNCHANGED <<agentVars, parseVars>>

InitIndex ==
    /\ max_iterations = MaxIterationsBound
    /\ AgentInit
    /\ ParseInit
    /\ IndexInit

NextIndex ==
    \/ main
    \/ build
    \/ similarity_search
    \/ fetch_document
    \/ list_components
    \/ search_documents_tool
    \/ read_full_document_tool
    \/ list_components_tool

IndexSpec == InitIndex /\ [][NextIndex]_vars

(***************************************************************************)
(* One VectorStoreManager shared by a caller of build() and callers of     *)
(* similarity_search / fetch_document that run beside it.  build() holds   *)
(* no lock: it computes the chunks, lets Chroma.from_documents add them to *)
(* the collection, which is not one atomic write, and assigns the handle   *)
(* when from_documents has returned.  A query reads the handle and the     *)
(* collection as they are at that moment.                                  *)
(***************************************************************************)
\* build(), lines 36-46: the chunks are computed, and an empty list raises
build_begin ==
    /\ ~ingest.active
    /\ builds < MaxBuilds
    /\ \E documents \in DocumentSets :
         LET chunks == AllChunks(documents)
         IN  /\ last_documents' = documents
             /\ IF NoChunks(chunks)
                THEN /\ last_build' = "ValueError"
                     /\ UNCHANGED ingest
                ELSE /\ last_build' = "running"
                     /\ ingest' = [active |-> TRUE, before |-> collection,
                                   pending |-> chunks]
    /\ builds' = builds + 1
    /\ query' = NoQuery
    /\ UNCHANGED <<vector_store, collection, fetched>>
    /\ UNCHANGED <<agentVars, parseVars>>

\* Chroma.from_documents, lines 48-54, under way: the next chunk is added
build_add ==
    /\ ingest.active
    /\ ingest.pending # << >>
    /\ collection' = from_documents(collection, <<Head(ingest.pending)>>)
    /\ ingest' = [ingest EXCEPT !.pending = Tail(ingest.pending)]
    /\ UNCHANGED <<vector_store, builds, last_build, last_documents, query, fetched>>
    /\ UNCHANGED <<agentVars, parseVars>>

\* from_documents has returned: self.vector_store is assigned, line 48
build_end ==
    /\ ingest.active
    /\ ingest.pending = << >>
    /\ vector_store' = "Chroma"
    /\ last_build' = "ok"
    /\ ingest' = NoIngest
    /\ UNCHANGED <<collection, builds, last_documents, query, fetched>>
    /\ UNCHANGED <<agentVars, parseVars>>

NextConc ==
    \/ build_begin
    \/ build_add
    \/ build_end
    \/ similarity_search
    \/ fetch_document

ConcSpec == InitIndex /\ [][NextConc]_vars

\* The positions of the chunks of the index that carry this doc_id.
ChunksWith(doc_id) == {i \in 1..Len(collection) : collection[i].metadata.doc_id = doc_id}
DocIdsPresent == {collection[i].metadata.doc_id : i \in 1..Len(collection)}

\* C10: after a build, for every doc_id present in the index the chunks that
\* share it carry the chunk_index values 0..n-1, each once, where n is the
\* number of those chunks.
C10_ChunkIndexesContiguous ==
    last_build = "ok"
      => \A doc_id \in DocIdsPresent :
           /\ {collection[i].metadata.chunk_index : i \in ChunksWith(doc_id)}
                = 0..(Cardinality(ChunksWith(doc_id)) - 1)
           /\ \A i, j \in ChunksWith(doc_id) :
                i # j => collection[i].metadata.chunk_index
                           # collection[j].metadata.chunk_index

\* C11: doc_id is a function of source_url alone: any two chunks of the index
\* whose Documents had the same source_url carry the same doc_id, whether
\* they came from one build or from two, and every chunk of a Document of
\* the last build carries the sha1 of that Document's source_url.
C11_DocIdFromSourceUrl ==
    /\ \A i, j \in 1..Len(collection) :
         collection[i].metadata.source_url = collection[j].metadata.source_url
           => collection[i].metadata.doc_id = collection[j].metadata.doc_id
    /\ last_build = "ok"
         => \A d \in 1..Len(last_documents) : \A i \in 1..Len(collection) :
              collection[i].page_content.text = last_documents[d].page_content.text
                => collection[i].metadata.doc_id
                     = sha1(last_documents[d].metadata.source_url)

\* Two builds have run and the index holds chunks of two Documents that share
\* a source_url but differ in component.
C11_Witness ==
    /\ builds = MaxBuilds
    /\ last_build = "ok"
    /\ \E i, j \in 1..Len(collection) :
         /\ collection[i].metadata.source_url = collection[j].metadata.source_url
         /\ collection[i].metadata.component # collection[j].metadata.component

\* C12: a build over Documents that yield no chunk (none, or only empty
\* pages) ends with the ValueError and leaves the instance as it was; an
\* instance whose vector_store is set never has an index of zero chunks.
C12_EmptyBuildAborts ==
    /\ [](vector_store = "Chroma" => Len(collection) > 0)
    /\ []((builds > 0 /\ \A d \in 1..Len(last_documents) :
                            last_documents[d].page_content.len = 0)
            => last_build = "ValueError")
    /\ [][(builds' = builds + 1 /\ last_build' = "ValueError")
            => UNCHANGED <<vector_store, collection>>]_vars

\* The first build of an instance was handed one Document, an empty page, and
\* raised.
C12_Witness ==
    /\ last_build = "ValueError"
    /\ Len(last_documents) > 0
    /\ vector_store = "None"
    /\ collection = << >>

\* The fetches of main() that succeeded, and those whose page has content.
FetchedOk == {c \in 1..Len(fetched.outcomes) : fetched.outcomes[c].ok}
FetchedContent == {c \in FetchedOk : Page(fetched.outcomes[c].url).len > 0}
MainBuilt == fetched.done /\ ~fetched.raised /\ builds = 1

\* C13 as stated: a failed fetch is skipped; when one of two fetches fails
\* the build succeeds with the surviving Document; the build raises the
\* ValueError only when every fetch failed.
C13_ErrorOnlyWhenAllFetchesFail ==
    MainBuilt
      => /\ Len(last_documents) = Cardinality(FetchedOk)
         /\ (Len(fetched.outcomes) = 2 /\ Cardinality(FetchedOk) = 1)
              => last_build = "ok"
         /\ last_build = "ValueError" => FetchedOk = {}

\* C13, amended: a failed fetch is skipped, so that build receives one
\* Document per fetch that succeeded; the build raises the ValueError
\* exactly when no fetch brought a page with content (every fetch failed or
\* every fetched page is empty), and otherwise the index holds the chunks of
\* exactly the fetched pages that have content.
C13_FetchFailureSkipped ==
    MainBuilt
      => /\ Len(last_documents) = Cardinality(FetchedOk)
         /\ \A c \in FetchedOk : \E d \in 1..Len(last_documents) :
              /\ last_documents[d].metadata.source_url = fetched.outcomes[c].url
              /\ last_documents[d].metadata.component
                   = fetched.outcomes[c].component
         /\ last_build = "ValueError" <=> FetchedContent = {}
         /\ last_build = "ok"
              => {collection[i].metadata.source_url : i \in 1..Len(collection)}
                   = {fetched.outcomes[c].url : c \in FetchedContent}

\* Of the two URLs configured under planning the first failed and the second
\* was fetched, and the build succeeded with the chunks of the second alone.
C13_Witness ==
    /\ MainBuilt
    /\ Len(fetched.outcomes) = 2
    /\ ~fetched.outcomes[1].ok
    /\ fetched.outcomes[2].ok
    /\ last_build = "ok"
    /\ Len(collection) > 0

\* C14: on an instance on which no build has succeeded (the handle is unset)
\* similarity_search and fetch_document raise the RuntimeError and return
\* nothing.
C14_NotBuiltRaises ==
    (vector_store = "None" /\ query.op \in {"similarity_search", "fetch_document"})
      => query.raised /\ query.result = << >>

\* A build raised for want of chunks, and the query that followed raised too.
C14_Witness ==
    /\ builds > 0
    /\ last_build = "ValueError"
    /\ vector_store = "None"
    /\ query.op \in {"similarity_search", "fetch_document"}
    /\ query.raised

\* The place of a component name in the ascending order of names.
NameRank(name) == CHOOSE r \in 1..Len(ComponentOrder) : ComponentOrder[r] = name

\* C15: list_available_components never raises; on a built index it returns
\* the component values present in the index, each once, none empty, in
\* ascending order; it returns the configured component names, sorted, only
\* when the index is absent.
C15_ComponentsListed ==
    query.op = "list_available_components"
      => /\ ~query.raised
         /\ \A r \in 1..Len(query.result) : query.result[r] \notin {"", NONE}
         /\ \A r, t \in 1..Len(query.result) :
              r < t => NameRank(query.result[r]) < NameRank(query.result[t])
         /\ IF vector_store = "None"
            THEN query.result = <<"perception", "planning">>
            ELSE {query.result[r] : r \in 1..Len(query.result)}
                   = {collection[i].metadata.component : i \in 1..Len(collection)}

\* The Documents of the URLs A and B, both of component planning, were
\* indexed and the tool answered ["planning"].
C15_Witness ==
    /\ builds = 1
    /\ last_build = "ok"
    /\ {last_documents[d].metadata.source_url : d \in 1..Len(last_documents)}
         = {"A", "B"}
    /\ \A d \in 1..Len(last_documents) :
         last_documents[d].metadata.component = "planning"
    /\ query.op = "list_available_components"
    /\ query.result = <<"planning">>

\* C16: search_documents(query, k) with a k >= 0 never raises on a built
\* index and returns at most k results, so none for k = 0; the results carry
\* the ranks 1, 2, ... in the order returned.  The same bound holds for
\* similarity_search(query, k).
C16_AtMostKResults ==
    /\ (query.op = "search_documents" /\ query.arg.given /\ vector_store = "Chroma")
         => /\ ~query.raised
            /\ Len(query.result) <= query.arg.value
            /\ \A r \in 1..Len(query.result) : query.result[r].rank = r
    /\ (query.op = "similarity_search" /\ vector_store = "Chroma")
         => ~query.raised /\ Len(query.result) <= query.arg

\* How often the chunk x occurs in the sequence s.
Count(s, x) == Cardinality({i \in 1..Len(s) : s[i] = x})

\* C17: on a built index fetch_document(doc_id) does not raise and returns
\* the chunks of the index that carry doc_id, each as often as the index
\* holds it and no other chunk, in ascending order of chunk_index; so for a
\* doc_id that no chunk carries it returns the empty sequence, and
\* read_full_document then gives the empty list.
C17_FetchReturnsMatchesSorted ==
    (vector_store = "Chroma" /\ query.op \in {"fetch_document", "read_full_document"})
      => /\ ~query.raised
         /\ Len(query.result) = Cardinality(ChunksWith(query.arg))
         /\ query.op = "fetch_document"
              => /\ \A r \in 1..Len(query.result) :
                      /\ query.result[r].metadata.doc_id = query.arg
                      /\ Count(query.result, query.result[r])
                           = Count(collection, query.result[r])
                 /\ \A r, t \in 1..Len(query.result) :
                      r < t => query.result[r].metadata.chunk_index
                                 <= query.result[t].metadata.chunk_index
         /\ query.op = "read_full_document"
              => \A r, t \in 1..Len(query.result) :
                   r < t => query.result[r].index <= query.result[t].index

\* fetch_document returned the chunks of two Documents that share a doc_id,
\* which the collection holds one Document after the other.
C17_Witness ==
    /\ vector_store = "Chroma"
    /\ query.op = "fetch_document"
    /\ Len(query.result) > 3
    /\ \E i \in 1..(Len(collection) - 1) :
         /\ collection[i].metadata.doc_id = query.arg
         /\ collection[i + 1].metadata.doc_id = query.arg
         /\ collection[i].metadata.chunk_index > collection[i + 1].metadata.chunk_index

\* C18: a rebuild replaces the index: after a build that succeeded the index
\* holds exactly the chunks of the Documents of that build, whatever it held
\* before.
C18_RebuildReplaces ==
    last_build = "ok" => collection = AllChunks(last_documents)

\* The query just made returned what it can return on the collection coll:
\* for fetch_document the chunks of coll with that doc_id, for
\* similarity_search k chunks of coll (all of them when coll has fewer),
\* whatever the ranking.
Observes(coll) ==
    \/ /\ query'.op = "fetch_document"
       /\ query'.result = FetchResult(coll, query'.arg)
    \/ /\ query'.op = "similarity_search"
       /\ Len(query'.result) = Min(query'.arg, Len(coll))
       /\ \A r \in 1..Len(query'.result) :
            Count(query'.result, query'.result[r]) <= Count(coll, query'.result[r])

\* C19: a similarity_search or fetch_document made while a build is in
\* progress sees the index as it was when the build started (it raises when
\* there was none) or the complete index the build leaves, never a part of
\* the chunks of that build.
C19_NoPartialIndexObserved ==
    [][(ingest.active /\ query' # query)
         => \/ query'.raised /\ ingest.before = << >>
            \/ ~query'.raised /\ Observes(ingest.before)
            \/ ~query'.raised /\ Observes(collection \o ingest.pending)]_vars

\* C20: in every execution of the node "model" the list handed to the chat
\* model is the system prompt, then the reminder if and only if iterations >=
\* max_iterations at that step, then the conversation history as stored;
\* the history stored afterwards holds no reminder and no system message.
C20_ReminderIffLimitReached ==
    [][(pc = "model" /\ pc' \in {"tools", "END"})
         => LET extra == Len(model_input') - Len(messages)
            IN  /\ extra \in {1, 2}
                /\ model_input'[1] = SystemMessage(SYSTEM_PROMPT)
                /\ SubSeq(model_input', extra + 1, Len(model_input')) = messages
                /\ iterations >= max_iterations
                     <=> (extra = 2 /\ model_input'[2] = SystemMessage(REMINDER))
                /\ \A i \in 1..Len(messages') :
                     /\ messages'[i].type # "system"
                     /\ messages'[i].content # REMINDER]_vars

\* After a round of tools that reached a limit of at least 1 the model was
\* called with the reminder in second place, before the history.
C20_Witness ==
    /\ max_iterations >= 1
    /\ rounds >= 1
    /\ iterations >= max_iterations
    /\ pc = "END"
    /\ Len(model_input) = Len(messages) + 1
    /\ model_input[2] = SystemMessage(REMINDER)
    /\ \A i \in 1..Len(messages) : messages[i].type # "system"

\* C21: the tool-result messages that one execution of the node "tools"
\* appends answer the calls of the last assistant message that name a
\* registered tool, one message per call and in the order of the calls, and
\* each message carries the id of its call.
C21_ResultsInCallOrder ==
    [][(pc = "tools" /\ pc' = "model")
         => LET calls == RegisteredCalls(Last(messages))
                added == SubSeq(messages', Len(messages) + 1, Len(messages'))
            IN  /\ SubSeq(messages', 1, Len(messages)) = messages
                /\ Len(added) = Len(calls)
                /\ \A i \in 1..Len(added) :
                     /\ added[i].type = "tool"
                     /\ added[i].tool_call_id = calls[i].id
                /\ \A i, j \in 1..Len(added) :
                     i < j => added[i].tool_call_id.pos < added[j].tool_call_id.pos]_vars

\* A round has answered an assistant message of MaxCalls calls to registered
\* tools: the history ends with MaxCalls tool-result messages.
C21_Witness ==
    /\ pc = "model"
    /\ rounds >= 1
    /\ Len(messages) > MaxCalls
    /\ Len(messages[Len(messages) - MaxCalls].tool_calls) = MaxCalls
    /\ \A i \in 1..MaxCalls :
         /\ messages[Len(messages) - MaxCalls + i].type = "tool"
         /\ messages[Len(messages) - MaxCalls + i].tool_call_id
              = messages[Len(messages) - MaxCalls].tool_calls[i].id

\* The tool calls whose argument payload is absent, of another type than str
\* or dict, or a string that is not the JSON text of a mapping.
NoMappingInputs ==
    UNION {EncodingsOf(x) : x \in OtherPayloads}
    \cup {ToolCall("mapping", "search_documents", CallId(1, 1), Missing, Missing)}

\* C22: _parse_args always returns a mapping, and it returns the empty
\* mapping for every tool call whose argument payload is absent, of an
\* unexpected type, or a string that does not parse as an argument mapping.
C22_AlwaysAMapping ==
    parsed.done
      => /\ IsDict(parsed.value)
         /\ tool_call_in \in NoMappingInputs => parsed.value = PyDict(EmptyMap)

\* C23: the counter is compared with the limit only when a round is entered:
\* with max_iterations >= 1 a round leaves iterations at most at
\* (max_iterations - 1) + the number of tool calls of the assistant message it
\* executed, no other step of a run raises the counter, and before the first
\* round it is below the limit; with max_iterations = 0 the counter stays 0
\* and no tool is ever invoked.
C23_CounterBound ==
    /\ [](max_iterations = 0
            => iterations = 0 /\ rounds = 0 /\ invoked = << >>)
    /\ []((max_iterations >= 1 /\ rounds = 0) => iterations <= max_iterations - 1)
    /\ [][max_iterations >= 1
            => IF pc = "tools"
               THEN iterations' <= (max_iterations - 1)
                                     + Len(Last(messages).tool_calls)
               ELSE iterations' <= iterations]_vars

\* A round of MaxCalls calls was entered with the counter one below the limit
\* and has left it above the limit, at the bound.
C23_Witness ==
    /\ max_iterations >= 1
    /\ rounds >= 1
    /\ pc = "model"
    /\ iterations = (max_iterations - 1) + MaxCalls
    /\ iterations > max_iterations

\* C24: a build that raises the ValueError changes no answer of the
\* instance: every similarity_search, fetch_document and list_components
\* gives after it what it gave before it, and on an instance that had no
\* index the two former keep raising.
C24_FailedBuildChangesNoAnswer ==
    [][(builds' = builds + 1 /\ last_build' = "ValueError")
         => /\ \A doc_id \in DocIdsAsked :
                 /\ FetchDocument(vector_store', collection', doc_id)
                      = FetchDocument(vector_store, collection, doc_id)
                 /\ vector_store = "None"
                      => FetchDocument(vector_store', collection', doc_id).raised
            /\ \A k \in 1..MaxK, ranking \in Rankings :
                 /\ SimilaritySearch(vector_store', collection', k, ranking)
                      = SimilaritySearch(vector_store, collection, k, ranking)
                 /\ vector_store = "None"
                      => SimilaritySearch(vector_store', collection', k, ranking).raised
            /\ ListComponents(vector_store', collection')
                 = ListComponents(vector_store, collection)]_vars

\* The second build of an instance raised, and the fetch_document that
\* followed returned the chunks the first build had indexed.
C24_Witness ==
    /\ builds = MaxBuilds
    /\ last_build = "ValueError"
    /\ vector_store = "Chroma"
    /\ query.op = "fetch_document"
    /\ ~query.raised
    /\ Len(query.result) > 0
    /\ query.result = FetchResult(collection, query.arg)

=============================================================================
